---- MODULE Spec2Model ----
(***************************************************************************)
(* A model of the helmet middleware: the factory tirneHelmet, which        *)
(* validates and resolves a partial SecurityConfig once, and the           *)
(* middleware it returns, which copies the downstream response and writes  *)
(* the security headers over the copy.                                     *)
(*                                                                         *)
(* Conventions.  A JavaScript object is a record [def, undef]: def maps    *)
(* the own keys that hold a value to it, undef is the set of own keys      *)
(* that are present with the value undefined.  A string that the code      *)
(* builds is kept as the pieces it is built from, tagged with the builder  *)
(* (kind), so two header values are equal here only if the same builder    *)
(* produced the same pieces.  TLC's strings are atoms: where the code      *)
(* works on the characters of a string (toKebabCase), the string is        *)
(* spelled out as the sequence of its characters.                          *)
(***************************************************************************)
EXTENDS Integers, Sequences, FiniteSets, TLC

\* ------------------------------------------------------------ bounds

\* Date.now reads 0..MaxTime.
MaxTime == 1
\* The suffixes Math.random().toString(36).slice(-6) gives are 0..MaxRand.
MaxRand == 1
\* The caller grows a list of its config up to MaxSources entries.
MaxSources == 2

\* ------------------------------------------------- JavaScript objects

Obj(def, undef) == [def |-> def, undef |-> undef]
EmptyObj == Obj(<<>>, {})
One(k, v) == Obj(k :> v, {})
Undef(k) == Obj(<<>>, {k})
OwnKeys(o) == DOMAIN o.def \cup o.undef
IsDef(o, k) == k \in DOMAIN o.def

\* The object literal { ...a, ...b }: b's own keys override a's, also when b
\* holds the key with the value undefined.
Spread(a, b) ==
  Obj([k \in (DOMAIN a.def \ b.undef) \cup DOMAIN b.def |->
          IF k \in DOMAIN b.def THEN b.def[k] ELSE a.def[k]],
      (a.undef \ DOMAIN b.def) \cup b.undef)

\* ------------------------------------------------------- permission

SELF == "'self'"
UNSAFE_INLINE == "'unsafe-inline'"
HTTPS == "https:"
DATA == "data:"
NONE == "'none'"
BLOB == "blob:"

\* ------------------------------------------------------ CSP keys

defaultSrc == "defaultSrc"
scriptSrc == "scriptSrc"
styleSrc == "styleSrc"
imgSrc == "imgSrc"
fontSrc == "fontSrc"
connectSrc == "connectSrc"
frameSrc == "frameSrc"
objectSrc == "objectSrc"
baseUri == "baseUri"
reportUri == "reportUri"
useNonce == "useNonce"
reportOnly == "reportOnly"

\* Object.entries visits the keys in insertion order.  Every csp object the
\* factory builds is DEFAULT_CSP_CONFIG or { ...DEFAULT_CSP_CONFIG, ...config.csp }:
\* the nine default keys come first, in the default's order; the keys the
\* user adds follow.
CspKeyOrder ==
  <<defaultSrc, scriptSrc, styleSrc, imgSrc, fontSrc, connectSrc, frameSrc,
    objectSrc, baseUri, reportUri, useNonce, reportOnly>>

DirectiveKeys == {CspKeyOrder[i] : i \in 1..9}

DEFAULT_CSP_CONFIG ==
  Obj(defaultSrc :> <<SELF>> @@
      scriptSrc :> <<SELF, UNSAFE_INLINE>> @@
      styleSrc :> <<SELF, UNSAFE_INLINE>> @@
      imgSrc :> <<SELF, DATA, BLOB>> @@
      fontSrc :> <<SELF>> @@
      connectSrc :> <<SELF>> @@
      frameSrc :> <<SELF>> @@
      objectSrc :> <<NONE>> @@
      baseUri :> <<SELF>>,
      {})

\* Permissions-Policy features, in the order Object.entries visits them: the
\* four default features, then the feature the user adds.
FeatureOrder == <<"camera", "microphone", "geolocation", "interest-cohort", "fullscreen">>

DEFAULT_PERMISSIONS_POLICY ==
  Obj("camera" :> <<>> @@ "microphone" :> <<>> @@ "geolocation" :> <<>> @@
      "interest-cohort" :> <<>>,
      {})

DEFAULT_HSTS ==
  Obj("maxAge" :> 15552000 @@ "includeSubDomains" :> TRUE @@ "preload" :> TRUE, {})

DEFAULT_SECURITY_CONFIG ==
  Obj("csp" :> DEFAULT_CSP_CONFIG @@
      "frameOptions" :> "DENY" @@
      "xssProtection" :> TRUE @@
      "dnsPrefetch" :> FALSE @@
      "referrerPolicy" :> "strict-origin-when-cross-origin" @@
      "permissionsPolicy" :> DEFAULT_PERMISSIONS_POLICY @@
      "hsts" :> DEFAULT_HSTS @@
      "corp" :> "same-origin" @@
      "coop" :> "same-origin",
      {})

\* The fields of SecurityConfig, and of HSTSConfig.
SecurityConfigKeys ==
  {"csp", "frameOptions", "xssProtection", "dnsPrefetch", "referrerPolicy",
   "permissionsPolicy", "hsts", "corp", "coop", "reportTo", "customHeaders"}
HSTSConfigKeys == {"maxAge", "includeSubDomains", "preload"}

\* ------------------------------------------------------ toKebabCase

\* A string as the sequence of its characters, and back: the strings that
\* toKebabCase meets.
Chars(str) ==
  CASE str = "defaultSrc" -> <<"d","e","f","a","u","l","t","S","r","c">>
    [] str = "scriptSrc" -> <<"s","c","r","i","p","t","S","r","c">>
    [] str = "styleSrc" -> <<"s","t","y","l","e","S","r","c">>
    [] str = "imgSrc" -> <<"i","m","g","S","r","c">>
    [] str = "fontSrc" -> <<"f","o","n","t","S","r","c">>
    [] str = "connectSrc" -> <<"c","o","n","n","e","c","t","S","r","c">>
    [] str = "frameSrc" -> <<"f","r","a","m","e","S","r","c">>
    [] str = "objectSrc" -> <<"o","b","j","e","c","t","S","r","c">>
    [] str = "baseUri" -> <<"b","a","s","e","U","r","i">>
    [] str = "reportUri" -> <<"r","e","p","o","r","t","U","r","i">>
    [] str = "useNonce" -> <<"u","s","e","N","o","n","c","e">>
    [] str = "reportOnly" -> <<"r","e","p","o","r","t","O","n","l","y">>

KebabNames ==
  {"default-src", "script-src", "style-src", "img-src", "font-src", "connect-src",
   "frame-src", "object-src", "base-uri", "report-uri", "use-nonce", "report-only"}

KebabChars(str) ==
  CASE str = "default-src" -> <<"d","e","f","a","u","l","t","-","s","r","c">>
    [] str = "script-src" -> <<"s","c","r","i","p","t","-","s","r","c">>
    [] str = "style-src" -> <<"s","t","y","l","e","-","s","r","c">>
    [] str = "img-src" -> <<"i","m","g","-","s","r","c">>
    [] str = "font-src" -> <<"f","o","n","t","-","s","r","c">>
    [] str = "connect-src" -> <<"c","o","n","n","e","c","t","-","s","r","c">>
    [] str = "frame-src" -> <<"f","r","a","m","e","-","s","r","c">>
    [] str = "object-src" -> <<"o","b","j","e","c","t","-","s","r","c">>
    [] str = "base-uri" -> <<"b","a","s","e","-","u","r","i">>
    [] str = "report-uri" -> <<"r","e","p","o","r","t","-","u","r","i">>
    [] str = "use-nonce" -> <<"u","s","e","-","n","o","n","c","e">>
    [] str = "report-only" -> <<"r","e","p","o","r","t","-","o","n","l","y">>

\* The string with the characters cs: one of KebabNames, or the characters
\* themselves, spelled out, when the conversion gives none of them.
String(cs) ==
  IF \E n \in KebabNames : KebabChars(n) = cs
  THEN CHOOSE n \in KebabNames : KebabChars(n) = cs
  ELSE ToString(cs)

UpperCase ==
  {"A","B","C","D","E","F","G","H","I","J","K","L","M","N","O","P","Q","R","S",
   "T","U","V","W","X","Y","Z"}

toLowerCase(c) ==
  CASE c = "A" -> "a" [] c = "B" -> "b" [] c = "C" -> "c" [] c = "D" -> "d"
    [] c = "E" -> "e" [] c = "F" -> "f" [] c = "G" -> "g" [] c = "H" -> "h"
    [] c = "I" -> "i" [] c = "J" -> "j" [] c = "K" -> "k" [] c = "L" -> "l"
    [] c = "M" -> "m" [] c = "N" -> "n" [] c = "O" -> "o" [] c = "P" -> "p"
    [] c = "Q" -> "q" [] c = "R" -> "r" [] c = "S" -> "s" [] c = "T" -> "t"
    [] c = "U" -> "u" [] c = "V" -> "v" [] c = "W" -> "w" [] c = "X" -> "x"
    [] c = "Y" -> "y" [] c = "Z" -> "z" [] OTHER -> c

\* str.replace(/[A-Z]/g, (m) => "-" + m.toLowerCase()), on the characters
RECURSIVE KebabReplace(_)
KebabReplace(cs) ==
  IF cs = <<>> THEN <<>>
  ELSE (IF Head(cs) \in UpperCase THEN <<"-", toLowerCase(Head(cs))>>
        ELSE <<Head(cs)>>) \o KebabReplace(Tail(cs))

\* toKebabCase, had a hit of the memo returned the key in place of the entry.
toKebabCaseKeyOnHit(str, cache) ==
  IF str \in DOMAIN cache /\ cache[str] # ""
  THEN [result |-> str, cache |-> cache]
  ELSE LET result == String(KebabReplace(Chars(str)))
       IN [result |-> result, cache |-> (str :> result) @@ cache]

\* toKebabCase with the memo `cache` (a function from the cached keys):
\* the result and the cache afterwards.  A cached entry is used only if it
\* is truthy, that is, a non-empty string.
toKebabCase(str, cache) ==
  IF str \in DOMAIN cache /\ cache[str] # ""
  THEN [result |-> cache[str], cache |-> cache]
  ELSE LET result == String(KebabReplace(Chars(str)))
       IN [result |-> result, cache |-> (str :> result) @@ cache]

\* --------------------------------------------------- validateConfig

\* config.hsts?.maxAge && config.hsts.maxAge < 0
HstsMaxAgeInvalid(config) ==
  /\ IsDef(config, "hsts")
  /\ IsDef(config.def["hsts"], "maxAge")
  /\ config.def["hsts"].def["maxAge"] # 0
  /\ config.def["hsts"].def["maxAge"] < 0

\* The loop over config.reportTo, had it stopped after the first entry.
ReportToErrorFirstOnly(reports) ==
  IF Len(reports) = 0 THEN ""
  ELSE IF Head(reports).maxAge < 0 THEN "Report-To maxAge must be a positive number"
  ELSE IF Len(Head(reports).endpoints) = 0 THEN "Report-To must have at least one endpoint"
  ELSE ""

\* The loop over config.reportTo: the message of the first throw, "" if none.
RECURSIVE ReportToError(_)
ReportToError(reports) ==
  IF Len(reports) = 0 THEN ""
  ELSE IF Head(reports).maxAge < 0 THEN "Report-To maxAge must be a positive number"
  ELSE IF Len(Head(reports).endpoints) = 0 THEN "Report-To must have at least one endpoint"
  ELSE ReportToError(Tail(reports))

\* The message of the Error validateConfig throws, "" if it returns.
validateConfig(config) ==
  IF HstsMaxAgeInvalid(config) THEN "HSTS maxAge must be a positive number"
  ELSE IF IsDef(config, "reportTo") THEN ReportToError(config.def["reportTo"])
  ELSE ""

\* ---------------------------------------------------- header values

Text(s) == [kind |-> "text", v |-> <<s>>]
Null == [kind |-> "null", v |-> <<>>]

\* Buffer.from(Date.now() + Math.random().toString(36).slice(-6)).toString("base64"):
\* the encoding of the clock reading followed by the random suffix.
generateNonce(time, random) == [time |-> time, random |-> random]

\* A source of a CSP clause: one of the configured strings, or 'nonce-<nonce>'.
Source(s) == [kind |-> "source", v |-> s]
NonceSource(nonce) == [kind |-> "nonce", v |-> nonce]

RECURSIVE MapSources(_)
MapSources(values) ==
  IF Len(values) = 0 THEN <<>> ELSE <<Source(Head(values))>> \o MapSources(Tail(values))

\* values?.length is truthy: a non-empty list or a non-empty string; a
\* boolean has no length.
HasLength(csp, key) ==
  /\ IsDef(csp, key)
  /\ IF key \in DirectiveKeys THEN Len(csp.def[key]) > 0
     ELSE IF key = reportUri THEN csp.def[key] # ""
     ELSE FALSE

CspUseNonce(csp) == IsDef(csp, useNonce) /\ csp.def[useNonce] = TRUE
CspReportOnly(csp) == IsDef(csp, reportOnly) /\ csp.def[reportOnly] = TRUE

\* The sources of a clause, had the nonce been added to scriptSrc alone.
SourcesScriptOnly(csp, nonce, key) ==
  IF CspUseNonce(csp) /\ Len(nonce) > 0 /\ key \in {scriptSrc}
  THEN Append(MapSources(csp.def[key]), NonceSource(nonce[1]))
  ELSE MapSources(csp.def[key])

\* The sources of the clause pushed for a directive key: values.join(" "),
\* followed by 'nonce-<nonce>' for scriptSrc and styleSrc when csp.useNonce
\* and the nonce are truthy.  nonce is <<>> (undefined) or <<n>>.
Sources(csp, nonce, key) ==
  IF CspUseNonce(csp) /\ Len(nonce) > 0 /\ key \in {scriptSrc, styleSrc}
  THEN Append(MapSources(csp.def[key]), NonceSource(nonce[1]))
  ELSE MapSources(csp.def[key])

\* The loop of buildCSPString from entry i of CspKeyOrder on, with the
\* clauses pushed so far and the memo: [threw, parts, cache].  values.join on
\* a string (reportUri) is a TypeError, thrown after toKebabCase(key) has run.
RECURSIVE CspLoop(_, _, _, _, _)
CspLoop(csp, nonce, i, parts, cache) ==
  IF i > Len(CspKeyOrder) THEN [threw |-> FALSE, parts |-> parts, cache |-> cache]
  ELSE LET key == CspKeyOrder[i] IN
    IF key \notin OwnKeys(csp) \/ ~HasLength(csp, key) \/ key = useNonce \/ key = reportOnly
    THEN CspLoop(csp, nonce, i + 1, parts, cache)
    ELSE LET k == toKebabCase(key, cache) IN
      IF key \notin DirectiveKeys
      THEN [threw |-> TRUE, parts |-> parts, cache |-> k.cache]
      ELSE CspLoop(csp, nonce, i + 1,
             Append(parts, [name |-> k.result, sources |-> Sources(csp, nonce, key)]),
             k.cache)

\* buildCSPString(csp, nonce): [threw, value, cache]; the value is the
\* clauses, joined by "; ".
buildCSPString(csp, nonce, cache) ==
  LET r == CspLoop(csp, nonce, 1, <<>>, cache)
  IN [threw |-> r.threw, value |-> [kind |-> "csp", v |-> r.parts], cache |-> r.cache]

\* buildPermissionsPolicyString(policies): [threw, value].  values.length on
\* a feature held with the value undefined is a TypeError.
RECURSIVE PermissionsLoop(_, _, _)
PermissionsLoop(policies, i, parts) ==
  IF i > Len(FeatureOrder) THEN [threw |-> FALSE, parts |-> parts]
  ELSE LET key == FeatureOrder[i] IN
    IF key \notin OwnKeys(policies) THEN PermissionsLoop(policies, i + 1, parts)
    ELSE IF key \in policies.undef THEN [threw |-> TRUE, parts |-> parts]
    ELSE PermissionsLoop(policies, i + 1,
           Append(parts, [feature |-> key, allow |-> policies.def[key]]))

buildPermissionsPolicyString(policies) ==
  LET r == PermissionsLoop(policies, 1, <<>>)
  IN [threw |-> r.threw, value |-> [kind |-> "permissions", v |-> r.parts]]

\* One element of the array buildReportToString serialises; JSON.stringify
\* leaves out a property whose value is undefined.
ReportObj(report) ==
  [k \in {"group", "max_age", "endpoints"} \cup
         (IF "includeSubdomains" \in DOMAIN report THEN {"include_subdomains"} ELSE {}) |->
     CASE k = "group" -> report.group
       [] k = "max_age" -> report.maxAge
       [] k = "endpoints" -> report.endpoints
       [] k = "include_subdomains" -> report.includeSubdomains]

RECURSIVE MapReports(_)
MapReports(reports) ==
  IF Len(reports) = 0 THEN <<>> ELSE <<ReportObj(Head(reports))>> \o MapReports(Tail(reports))

buildReportToString(reports) == [kind |-> "json", v |-> MapReports(reports)]

\* ---------------------------------------------------------- Headers

\* Header names are matched byte-lowercased.
ByteLowercase(name) ==
  CASE name = "X-Frame-Options" -> "x-frame-options"
    [] name = "X-XSS-Protection" -> "x-xss-protection"
    [] name = "X-Content-Type-Options" -> "x-content-type-options"
    [] name = "Referrer-Policy" -> "referrer-policy"
    [] name = "X-DNS-Prefetch-Control" -> "x-dns-prefetch-control"
    [] name = "Cross-Origin-Resource-Policy" -> "cross-origin-resource-policy"
    [] name = "Cross-Origin-Opener-Policy" -> "cross-origin-opener-policy"
    [] name = "Report-To" -> "report-to"
    [] name = "Content-Security-Policy" -> "content-security-policy"
    [] name = "Content-Security-Policy-Report-Only" -> "content-security-policy-report-only"
    [] name = "X-Nonce" -> "x-nonce"
    [] name = "Permissions-Policy" -> "permissions-policy"
    [] name = "Strict-Transport-Security" -> "strict-transport-security"
    [] name = "X-Custom-Header" -> "x-custom-header"
    [] name = "Bad Name" -> "bad name"
    [] name = "Content-Type" -> "content-type"
    [] OTHER -> name

\* Names that are no header name (no HTTP token): Headers.set throws a TypeError.
IsHeaderName(name) == name \notin {"", "Bad Name"}

\* Headers.set strips leading and trailing whitespace from the value.
Trim(s) == CASE s = " padded " -> "padded" [] OTHER -> s
Normalize(value) == IF value.kind = "text" THEN Text(Trim(value.v[1])) ELSE value

\* headers.set(name, value), name a header name: the last writer wins.
HeadersSet(headers, name, value) == (ByteLowercase(name) :> Normalize(value)) @@ headers

HeadersHas(headers, name) == ByteLowercase(name) \in DOMAIN headers
HeadersGet(headers, name) == headers[ByteLowercase(name)]

\* The loop over the static headers, had it left alone a header the
\* downstream response already has (append-if-absent in place of set).
RECURSIVE SetAllIfAbsent(_, _)
SetAllIfAbsent(headers, entries) ==
  IF Len(entries) = 0 THEN [threw |-> FALSE, headers |-> headers]
  ELSE IF ~IsHeaderName(Head(entries).name) THEN [threw |-> TRUE, headers |-> headers]
  ELSE SetAllIfAbsent(
         IF HeadersHas(headers, Head(entries).name) THEN headers
         ELSE HeadersSet(headers, Head(entries).name, Head(entries).value),
         Tail(entries))

\* for (const [key, value] of Object.entries(staticHeaders)) newHeaders.set(key, value)
RECURSIVE SetAll(_, _)
SetAll(headers, entries) ==
  IF Len(entries) = 0 THEN [threw |-> FALSE, headers |-> headers]
  ELSE IF ~IsHeaderName(Head(entries).name) THEN [threw |-> TRUE, headers |-> headers]
  ELSE SetAll(HeadersSet(headers, Head(entries).name, Head(entries).value), Tail(entries))

\* ------------------------------------------------------ tirneHelmet

\* obj[name] = value on an object kept as its entries in insertion order:
\* an own key keeps its place, a new key is added at the end.
ObjectSet(entries, name, value) ==
  IF \E i \in 1..Len(entries) : entries[i].name = name
  THEN [i \in 1..Len(entries) |->
          IF entries[i].name = name THEN [name |-> name, value |-> value] ELSE entries[i]]
  ELSE Append(entries, [name |-> name, value |-> value])

\* Object.assign, had it kept the value of a key the target already has.
RECURSIVE ObjectAssignKeepOwn(_, _)
ObjectAssignKeepOwn(entries, custom) ==
  IF Len(custom) = 0 THEN entries
  ELSE ObjectAssignKeepOwn(
         IF \E i \in 1..Len(entries) : entries[i].name = Head(custom).name
         THEN entries
         ELSE Append(entries, [name |-> Head(custom).name, value |-> Text(Head(custom).value)]),
         Tail(custom))

\* Object.assign(staticHeaders, customHeaders)
RECURSIVE ObjectAssign(_, _)
ObjectAssign(entries, custom) ==
  IF Len(custom) = 0 THEN entries
  ELSE ObjectAssign(ObjectSet(entries, Head(custom).name, Text(Head(custom).value)),
                    Tail(custom))

\* const finalConfig = { ...DEFAULT_SECURITY_CONFIG, ...config, csp, permissionsPolicy, hsts }
FinalConfig(config) ==
  Spread(Spread(DEFAULT_SECURITY_CONFIG, config),
    Obj("csp" :> (IF IsDef(config, "csp")
                  THEN Spread(DEFAULT_CSP_CONFIG, config.def["csp"])
                  ELSE DEFAULT_CSP_CONFIG) @@
        "permissionsPolicy" :> (IF IsDef(config, "permissionsPolicy")
                  THEN Spread(DEFAULT_PERMISSIONS_POLICY, config.def["permissionsPolicy"])
                  ELSE DEFAULT_PERMISSIONS_POLICY) @@
        "hsts" :> (IF IsDef(config, "hsts")
                  THEN Spread(DEFAULT_HSTS, config.def["hsts"])
                  ELSE DEFAULT_HSTS),
        {}))

\* A string-valued field is truthy when it holds a non-empty string.
TruthyString(o, k) == IsDef(o, k) /\ o.def[k] # ""

Entry(cond, name, value) == IF cond THEN <<[name |-> name, value |-> value]>> ELSE <<>>

\* The static header map, as its entries in insertion order.
StaticHeaders(fc) ==
  ObjectAssign(
    Entry(TruthyString(fc, "frameOptions"), "X-Frame-Options",
          Text(IF IsDef(fc, "frameOptions") THEN fc.def["frameOptions"] ELSE ""))
    \o Entry(IsDef(fc, "xssProtection") /\ fc.def["xssProtection"], "X-XSS-Protection",
          Text("1; mode=block"))
    \o Entry(TRUE, "X-Content-Type-Options", Text("nosniff"))
    \o Entry(TruthyString(fc, "referrerPolicy"), "Referrer-Policy",
          Text(IF IsDef(fc, "referrerPolicy") THEN fc.def["referrerPolicy"] ELSE ""))
    \o Entry(IsDef(fc, "dnsPrefetch"), "X-DNS-Prefetch-Control",
          Text(IF IsDef(fc, "dnsPrefetch") /\ fc.def["dnsPrefetch"] THEN "on" ELSE "off"))
    \o Entry(TruthyString(fc, "corp"), "Cross-Origin-Resource-Policy",
          Text(IF IsDef(fc, "corp") THEN fc.def["corp"] ELSE ""))
    \o Entry(TruthyString(fc, "coop"), "Cross-Origin-Opener-Policy",
          Text(IF IsDef(fc, "coop") THEN fc.def["coop"] ELSE ""))
    \o Entry(IsDef(fc, "reportTo"), "Report-To",
          IF IsDef(fc, "reportTo") THEN buildReportToString(fc.def["reportTo"]) ELSE Null),
    IF IsDef(fc, "customHeaders") THEN fc.def["customHeaders"] ELSE <<>>)

\* process.env.NODE_ENV === "production"
IsProduction(nodeEnv) == nodeEnv = "production"

\* `${x}` of a number, or of undefined
NumberString(o, k) == IF IsDef(o, k) THEN ToString(o.def[k]) ELSE "undefined"

\* hstsHeader, had it been built whatever NODE_ENV is.
HstsHeaderAnyEnv(production, fc) ==
  IF IsDef(fc, "hsts")
  THEN LET hsts == fc.def["hsts"] IN
       [kind |-> "hsts",
        v |-> <<"max-age=", NumberString(hsts, "maxAge"),
                IF IsDef(hsts, "includeSubDomains") /\ hsts.def["includeSubDomains"]
                THEN "; includeSubDomains" ELSE "",
                IF IsDef(hsts, "preload") /\ hsts.def["preload"] THEN "; preload" ELSE "">>]
  ELSE Null

\* const hstsHeader = isProduction && finalConfig.hsts ? `max-age=...` : null
HstsHeader(production, fc) ==
  IF production /\ IsDef(fc, "hsts")
  THEN LET hsts == fc.def["hsts"] IN
       [kind |-> "hsts",
        v |-> <<"max-age=", NumberString(hsts, "maxAge"),
                IF IsDef(hsts, "includeSubDomains") /\ hsts.def["includeSubDomains"]
                THEN "; includeSubDomains" ELSE "",
                IF IsDef(hsts, "preload") /\ hsts.def["preload"] THEN "; preload" ELSE "">>]
  ELSE Null

\* tirneHelmet(config) under NODE_ENV = nodeEnv: the error thrown ("" if none)
\* and what the returned middleware closes over.
tirneHelmet(config, nodeEnv) ==
  LET error == validateConfig(config)
      fc == FinalConfig(config)
  IN [error |-> error,
      finalConfig |-> fc,
      staticHeaders |-> StaticHeaders(fc),
      isProduction |-> IsProduction(nodeEnv),
      hstsHeader |-> HstsHeader(IsProduction(nodeEnv), fc)]

\* --------------------------------------------------- the middleware

\* new Response(response.body, { headers: newHeaders }): the status and the
\* status text left to their defaults.
NewResponseDefaultStatus(response, newHeaders) ==
  [status |-> 200, statusText |-> "", body |-> response.body, headers |-> newHeaders]

\* new Response(response.body, { status, statusText, headers: newHeaders })
NewResponse(response, newHeaders) ==
  [status |-> response.status, statusText |-> response.statusText,
   body |-> response.body, headers |-> newHeaders]

\* const newHeaders = new Headers(response.headers) is a collection of its
\* own: the downstream response after the writes to newHeaders.
Downstream(response, newHeaders) == response

CspHeaderName(csp) ==
  IF CspReportOnly(csp) THEN "Content-Security-Policy-Report-Only"
  ELSE "Content-Security-Policy"

\* The returned middleware, from the point where next() has resolved with
\* `response`: [outcome, response, downstream, nonce, cache].  outcome is
\* "returned" or "threw" (a TypeError of Headers.set or of a builder);
\* response is the response returned; downstream is the response next()
\* resolved with, as the middleware leaves it; nonce is <<>> or <<n>>, the
\* nonce generated; cache is the kebab memo afterwards.  Date.now and
\* Math.random are read only when a nonce is generated.
Middleware(fc, static, hsts, response, time, random, cache) ==
  LET none == [outcome |-> "threw", response |-> response, downstream |-> response,
               nonce |-> <<>>, cache |-> cache]
      s == SetAll(response.headers, static)
      hasCsp == IsDef(fc, "csp")
      nonce == IF hasCsp /\ CspUseNonce(fc.def["csp"])
               THEN <<generateNonce(time, random)>> ELSE <<>>
      built == IF hasCsp THEN buildCSPString(fc.def["csp"], nonce, cache)
               ELSE [threw |-> FALSE, value |-> Null, cache |-> cache]
      h1 == IF hasCsp THEN HeadersSet(s.headers, CspHeaderName(fc.def["csp"]), built.value)
            ELSE s.headers
      h2 == IF Len(nonce) > 0
            THEN HeadersSet(h1, "X-Nonce", [kind |-> "nonce", v |-> nonce[1]])
            ELSE h1
      hasPolicy == IsDef(fc, "permissionsPolicy")
      pp == IF hasPolicy THEN buildPermissionsPolicyString(fc.def["permissionsPolicy"])
            ELSE [threw |-> FALSE, value |-> Null]
      h3 == IF hasPolicy THEN HeadersSet(h2, "Permissions-Policy", pp.value) ELSE h2
      h4 == IF hsts.kind # "null"
            THEN HeadersSet(h3, "Strict-Transport-Security", hsts)
            ELSE h3
  IN IF s.threw THEN none
     ELSE IF built.threw \/ pp.threw
     THEN [none EXCEPT !.nonce = nonce, !.cache = built.cache]
     ELSE [outcome |-> "returned", response |-> NewResponse(response, h4),
           downstream |-> Downstream(response, h4),
           nonce |-> nonce, cache |-> built.cache]

\* ----------------------------------------------------------- inputs

Envs == {"production", "development"}

CspChoices ==
  { One(useNonce, TRUE),
    Obj(useNonce :> TRUE @@ scriptSrc :> <<>> @@ styleSrc :> <<HTTPS, "'nonce-abc'">>, {}),
    Obj(useNonce :> TRUE @@ reportOnly :> TRUE, {}),
    One(reportOnly, TRUE),
    One(reportUri, "/csp-report"),
    Undef(styleSrc),
    Obj(defaultSrc :> <<SELF>> @@ scriptSrc :> <<SELF, UNSAFE_INLINE>>, {}) }

HstsChoices ==
  { One("maxAge", -1),
    One("maxAge", 0),
    Undef("maxAge"),
    One("preload", FALSE),
    Obj("maxAge" :> 31536000 @@ "includeSubDomains" :> FALSE @@ "preload" :> FALSE, {}) }

PermissionsChoices ==
  { One("camera", <<SELF>>), One("fullscreen", <<>>), Undef("camera") }

Endpoint == [url |-> "https://r.example/"]
Group(maxAge, endpoints) == [group |-> "g", maxAge |-> maxAge, endpoints |-> endpoints]

ReportToChoices ==
  { <<>>,
    <<Group(10, <<Endpoint>>)>>,
    <<Group(-1, <<Endpoint>>)>>,
    <<Group(10, <<>>)>>,
    <<Group(0, <<Endpoint>>) @@ [includeSubdomains |-> TRUE], Group(-5, <<Endpoint>>)>>,
    <<Group(10, <<Endpoint>>), Group(10, <<>>)>> }

Custom(name, value) == [name |-> name, value |-> value]

CustomHeaderChoices ==
  { <<>>,
    <<Custom("X-Custom-Header", "custom-value")>>,
    <<Custom("X-Custom-Header", "custom-value"), Custom("x-custom-header", " padded ")>>,
    <<Custom("X-Content-Type-Options", "sniff")>>,
    <<Custom("x-frame-options", "ALLOWALL"), Custom("X-Frame-Options", "custom-value")>>,
    <<Custom("Content-Security-Policy", "default-src *")>>,
    <<Custom("content-security-policy-report-only", "default-src *"),
      Custom("Permissions-Policy", "camera=*")>>,
    <<Custom("Strict-Transport-Security", "max-age=0")>>,
    <<Custom("X-Nonce", "custom-value")>>,
    <<Custom("Bad Name", "custom-value")>> }

\* The configs that supply one top-level key.
Singles ==
  {One("csp", c) : c \in CspChoices}
  \cup {One("hsts", h) : h \in HstsChoices}
  \cup {One("permissionsPolicy", p) : p \in PermissionsChoices}
  \cup {One("reportTo", r) : r \in ReportToChoices}
  \cup {One("customHeaders", c) : c \in CustomHeaderChoices}
  \cup {One("frameOptions", "SAMEORIGIN"), Undef("frameOptions"),
        One("xssProtection", FALSE),
        One("dnsPrefetch", TRUE), Undef("dnsPrefetch"),
        One("referrerPolicy", "no-referrer"),
        One("corp", "cross-origin"),
        One("coop", "unsafe-none"), Undef("coop")}

\* Configs that supply several keys: the config of the repository's test, one
\* with two invalid keys, and custom headers named like the headers the
\* middleware writes per request, with the csp flags and the hsts values
\* that decide those.
Combined ==
  { Obj("csp" :> Obj(defaultSrc :> <<SELF>> @@ scriptSrc :> <<SELF, UNSAFE_INLINE>>, {}) @@
        "frameOptions" :> "DENY" @@ "xssProtection" :> TRUE, {}),
    Obj("hsts" :> One("maxAge", -1) @@ "reportTo" :> <<Group(10, <<>>)>>, {}),
    Obj("hsts" :> One("maxAge", -1) @@ "xssProtection" :> FALSE, {"frameOptions"}),
    Obj("csp" :> One(useNonce, TRUE) @@
        "customHeaders" :> <<Custom("X-Nonce", "custom-value")>>, {}),
    Obj("csp" :> Obj(useNonce :> TRUE @@ reportOnly :> TRUE, {}) @@
        "customHeaders" :> <<Custom("content-security-policy-report-only", "default-src *"),
                             Custom("Permissions-Policy", "camera=*")>>, {}),
    Obj("csp" :> One(reportOnly, TRUE) @@
        "customHeaders" :> <<Custom("Content-Security-Policy", "default-src *")>>, {}),
    Obj("hsts" :> One("maxAge", 0) @@
        "customHeaders" :> <<Custom("Strict-Transport-Security", "max-age=0")>>, {}),
    Obj("reportTo" :> <<Group(10, <<Endpoint>>)>> @@
        "customHeaders" :> <<Custom("Report-To", "custom-value")>>, {"csp", "hsts"}) }

\* The configs the caller may pass to tirneHelmet.
Configs == {EmptyObj} \cup Singles \cup Combined

\* The responses the downstream handler resolves with: one that carries a
\* header the middleware never writes and headers named like those it writes,
\* and one with another status and body and no header.
Responses ==
  { [status |-> 200, statusText |-> "OK", body |-> "hello",
     headers |-> "content-type" :> Text("application/json") @@
                 "strict-transport-security" :> Text("handler") @@
                 "report-to" :> Text("handler") @@
                 "x-frame-options" :> Text("handler") @@
                 "x-xss-protection" :> Text("handler") @@
                 "x-content-type-options" :> Text("handler") @@
                 "x-nonce" :> Text("handler") @@
                 "content-security-policy" :> Text("handler") @@
                 "content-security-policy-report-only" :> Text("handler")],
    [status |-> 404, statusText |-> "Not Found", body |-> "", headers |-> <<>>] }

\* ------------------------------------------------------------ state

VARIABLES
  env,            \* process.env.NODE_ENV
  kebabCache,     \* the module's memo of toKebabCase
  phase,          \* "new": tirneHelmet not called; "ready": it returned the
                  \* middleware; "failed": it threw
  config,         \* the config the caller passed to tirneHelmet, as it was
                  \* at the call
  caller,         \* the caller's config object as it is now
  error,          \* the message of the Error tirneHelmet threw, "" if none
  constructedUnder, \* process.env.NODE_ENV as it was when tirneHelmet ran
  finalConfig,    \* the closure of the middleware
  staticHeaders,
  isProduction,
  hstsHeader,
  outcome,        \* of the last request: "none", "returned", "threw" (the
                  \* middleware's own code threw), "propagated" (next() rejected)
  handled,        \* the response next() resolved with, as it was then
  response,       \* the same object after the middleware has run
  returned,       \* the response the middleware returned
  nonce,          \* the nonce generated for the last request: <<>> or <<n>>
  earlier         \* an earlier request that returned a response: <<>> or
                  \* <<[handled, returned, nonce]>>

vars ==
  <<env, kebabCache, phase, config, caller, error, constructedUnder, finalConfig, staticHeaders, isProduction,
    hstsHeader, outcome, handled, response, returned, nonce, earlier>>

closure == <<phase, config, caller, error, constructedUnder, finalConfig, staticHeaders, isProduction, hstsHeader>>
request == <<outcome, handled, response, returned, nonce>>

NoResponse == [status |-> 0, statusText |-> "", body |-> "", headers |-> <<>>]

Init ==
  /\ env \in Envs
  /\ kebabCache = <<>>
  /\ phase = "new"
  /\ config = EmptyObj
  /\ caller = EmptyObj
  /\ error = ""
  /\ constructedUnder = ""
  /\ finalConfig = EmptyObj
  /\ staticHeaders = <<>>
  /\ isProduction = FALSE
  /\ hstsHeader = Null
  /\ outcome = "none"
  /\ handled = NoResponse
  /\ response = NoResponse
  /\ returned = NoResponse
  /\ nonce = <<>>
  /\ earlier = <<>>

\* The caller calls tirneHelmet(c).
Construct(c) ==
  /\ \E h \in {tirneHelmet(c, env)} :
       /\ config' = c
       /\ caller' = c
       /\ error' = h.error
       /\ constructedUnder' = env
       /\ IF h.error # ""
          THEN /\ phase' = "failed"
               /\ UNCHANGED <<finalConfig, staticHeaders, isProduction, hstsHeader>>
          ELSE /\ phase' = "ready"
               /\ finalConfig' = h.finalConfig
               /\ staticHeaders' = h.staticHeaders
               /\ isProduction' = h.isProduction
               /\ hstsHeader' = h.hstsHeader
  /\ UNCHANGED <<env, kebabCache, request, earlier>>

\* Something in the process assigns process.env.NODE_ENV.
SetEnv(e) ==
  /\ e # env
  /\ env' = e
  /\ UNCHANGED <<kebabCache, closure, request, earlier>>

\* The snapshot `earlier` after a request: kept, or replaced by the request
\* that was the last one, if that one returned a response.
Remember ==
  \/ earlier' = earlier
  \/ /\ outcome = "returned"
     /\ earlier' = <<[handled |-> handled, returned |-> returned, nonce |-> nonce]>>

\* The middleware handles a request whose downstream handler resolves with r,
\* with Date.now() = time and the random suffix random, should it read them.
Handle(r, time, random) ==
  /\ \E m \in {Middleware(finalConfig, staticHeaders, hstsHeader, r, time, random, kebabCache)} :
        /\ outcome' = m.outcome
        /\ handled' = r
        /\ response' = m.downstream
        /\ returned' = IF m.outcome = "returned" THEN m.response ELSE NoResponse
        /\ nonce' = m.nonce
        /\ kebabCache' = m.cache
  /\ Remember
  /\ UNCHANGED <<env, closure>>

\* The downstream handler fails: await next() rejects and the rejection
\* leaves the middleware as it came.
HandlerFails ==
  /\ outcome' = "propagated"
  /\ handled' = NoResponse
  /\ response' = NoResponse
  /\ returned' = NoResponse
  /\ nonce' = <<>>
  /\ Remember
  /\ UNCHANGED <<env, kebabCache, closure>>

\* Another middleware instance, made from a config whose csp is c, handles a
\* request: of the state modelled here it touches the kebab memo only.
OtherInstanceRequest(c) ==
  /\ kebabCache' = buildCSPString(Spread(DEFAULT_CSP_CONFIG, c), <<>>, kebabCache).cache
  /\ kebabCache' # kebabCache
  /\ UNCHANGED <<env, closure, request, earlier>>

\* What Date.now and Math.random give the next request.  They are read only
\* by generateNonce, which runs only when csp.useNonce is set.  Date.now is
\* the wall clock: it may read the same millisecond twice, and it may be set
\* back.
GeneratesNonce == IsDef(finalConfig, "csp") /\ CspUseNonce(finalConfig.def["csp"])
ClockReadings == IF GeneratesNonce THEN 0..MaxTime ELSE {0}
RandomSuffixes == IF GeneratesNonce THEN 0..MaxRand ELSE {0}

Next ==
  \/ phase = "new" /\ \E c \in Configs : Construct(c)
  \/ \E e \in Envs : SetEnv(e)
  \/ phase = "ready" /\
       \E r \in Responses, time \in ClockReadings, random \in RandomSuffixes :
         Handle(r, time, random)
  \/ phase = "ready" /\ HandlerFails
  \/ OtherInstanceRequest(EmptyObj)

Spec == Init /\ [][Next]_vars

\* ------------------------------------------- the caller's own object

\* finalConfig is built by shallow spreads (lines 346-356): its csp and
\* permissionsPolicy are objects of its own, but each list in them that came
\* from the caller's config is the caller's array, and its customHeaders is
\* the caller's object.  A change the caller makes in place is therefore a
\* change of finalConfig; staticHeaders and hstsHeader were computed before.

\* The caller runs config.csp[key].push("https:").
PushSource(key) ==
  /\ IsDef(caller, "csp")
  /\ IsDef(caller.def["csp"], key)
  /\ Len(caller.def["csp"].def[key]) < MaxSources
  /\ caller' = [caller EXCEPT !.def["csp"].def[key] = Append(@, HTTPS)]
  /\ finalConfig' = [finalConfig EXCEPT !.def["csp"].def[key] = Append(@, HTTPS)]
  /\ UNCHANGED <<env, kebabCache, phase, config, error, constructedUnder, staticHeaders,
                 isProduction, hstsHeader, request, earlier>>

\* The caller runs config.permissionsPolicy[feature].push("'self'").
PushAllow(feature) ==
  /\ IsDef(caller, "permissionsPolicy")
  /\ IsDef(caller.def["permissionsPolicy"], feature)
  /\ Len(caller.def["permissionsPolicy"].def[feature]) < MaxSources
  /\ caller' = [caller EXCEPT !.def["permissionsPolicy"].def[feature] = Append(@, SELF)]
  /\ finalConfig' =
       [finalConfig EXCEPT !.def["permissionsPolicy"].def[feature] = Append(@, SELF)]
  /\ UNCHANGED <<env, kebabCache, phase, config, error, constructedUnder, staticHeaders,
                 isProduction, hstsHeader, request, earlier>>

\* The caller runs config.customHeaders["X-Late"] = "late".
SetCustomHeader ==
  /\ IsDef(caller, "customHeaders")
  /\ \A i \in DOMAIN caller.def["customHeaders"] :
       caller.def["customHeaders"][i].name # "X-Late"
  /\ caller' = [caller EXCEPT !.def["customHeaders"] = Append(@, Custom("X-Late", "late"))]
  /\ finalConfig' =
       [finalConfig EXCEPT !.def["customHeaders"] = Append(@, Custom("X-Late", "late"))]
  /\ UNCHANGED <<env, kebabCache, phase, config, error, constructedUnder, staticHeaders,
                 isProduction, hstsHeader, request, earlier>>

\* The middleware in a program whose caller keeps and changes its config.
NextMutation ==
  \/ Next
  \/ phase = "ready" /\ \E key \in DirectiveKeys : PushSource(key)
  \/ phase = "ready" /\ \E i \in DOMAIN FeatureOrder : PushAllow(FeatureOrder[i])
  \/ phase = "ready" /\ SetCustomHeader

SpecMutation == Init /\ [][NextMutation]_vars

\* ----------------------------------------------------------- claims

\* Two header values are the same string.
SameValue(a, b) == a.kind = b.kind /\ a.v = b.v

\* The last request came back with a response.
Returned == phase = "ready" /\ outcome = "returned"

\* The customHeaders of the caller's config, as its entries.
UserCustom == IF IsDef(config, "customHeaders") THEN config.def["customHeaders"] ELSE <<>>

\* The entries of customHeaders whose name is `name`, up to case.
CustomNamed(name) ==
  {i \in DOMAIN UserCustom : ByteLowercase(UserCustom[i].name) = ByteLowercase(name)}

Max(S) == CHOOSE x \in S : \A y \in S : y <= x

\* What the middleware writes for the last request, in the order of the
\* writes: the static headers, the CSP header, X-Nonce, Permissions-Policy,
\* Strict-Transport-Security.
Writes ==
  staticHeaders
  \o <<[name |-> CspHeaderName(finalConfig.def["csp"]),
        value |-> buildCSPString(finalConfig.def["csp"], nonce, <<>>).value]>>
  \o (IF Len(nonce) > 0
      THEN <<[name |-> "X-Nonce", value |-> [kind |-> "nonce", v |-> nonce[1]]]>>
      ELSE <<>>)
  \o <<[name |-> "Permissions-Policy",
        value |-> buildPermissionsPolicyString(finalConfig.def["permissionsPolicy"]).value]>>
  \o (IF isProduction
      THEN <<[name |-> "Strict-Transport-Security", value |-> hstsHeader]>>
      ELSE <<>>)

WrittenNames == LET w == Writes IN {ByteLowercase(w[i].name) : i \in DOMAIN w}

\* The names written after the static headers.
PerRequestNames ==
  {ByteLowercase(CspHeaderName(finalConfig.def["csp"])), "permissions-policy"}
  \cup (IF Len(nonce) > 0 THEN {"x-nonce"} ELSE {})
  \cup (IF isProduction THEN {"strict-transport-security"} ELSE {})

SecurityHeaderNames ==
  {"X-Frame-Options", "X-XSS-Protection", "X-Content-Type-Options", "Referrer-Policy",
   "X-DNS-Prefetch-Control", "Cross-Origin-Resource-Policy", "Cross-Origin-Opener-Policy",
   "Report-To", "Content-Security-Policy", "Content-Security-Policy-Report-Only",
   "X-Nonce", "Permissions-Policy", "Strict-Transport-Security"}

\* C1, as claimed: whatever the config, customHeaders included, every
\* returned response carries X-Content-Type-Options with the value nosniff.
C1_NosniffAlways ==
  Returned =>
    /\ HeadersHas(returned.headers, "X-Content-Type-Options")
    /\ SameValue(HeadersGet(returned.headers, "X-Content-Type-Options"), Text("nosniff"))

\* C2, as claimed: a returned response carries Strict-Transport-Security if
\* and only if the mode is production (read here as the mode the middleware
\* was constructed under, the reading most favourable to the claim).
C2_HstsIffProduction ==
  Returned =>
    (HeadersHas(returned.headers, "Strict-Transport-Security")
       <=> constructedUnder = "production")

\* C2, amended: the middleware writes Strict-Transport-Security if and only
\* if NODE_ENV was production when it was constructed, and then the returned
\* response carries the value built from the policy; otherwise the returned
\* response has that header only if customHeaders or, failing that, the
\* downstream response supplied it, with the value supplied.
C2_HstsWrittenIffProduction ==
  Returned =>
    IF constructedUnder = "production"
    THEN /\ HeadersHas(returned.headers, "Strict-Transport-Security")
         /\ HeadersGet(returned.headers, "Strict-Transport-Security").kind = "hsts"
         /\ SameValue(HeadersGet(returned.headers, "Strict-Transport-Security"),
                      HstsHeader(TRUE, FinalConfig(config)))
    ELSE IF CustomNamed("Strict-Transport-Security") # {}
    THEN /\ HeadersHas(returned.headers, "Strict-Transport-Security")
         /\ SameValue(HeadersGet(returned.headers, "Strict-Transport-Security"),
              Text(Trim(UserCustom[Max(CustomNamed("Strict-Transport-Security"))].value)))
    ELSE IF HeadersHas(handled.headers, "Strict-Transport-Security")
    THEN /\ HeadersHas(returned.headers, "Strict-Transport-Security")
         /\ SameValue(HeadersGet(returned.headers, "Strict-Transport-Security"),
                      HeadersGet(handled.headers, "Strict-Transport-Security"))
    ELSE ~HeadersHas(returned.headers, "Strict-Transport-Security")

\* A response returned by a middleware constructed outside production, after
\* NODE_ENV has become production: it has the downstream handler's
\* Strict-Transport-Security, not one of the middleware's.
C2_Witness ==
  /\ Returned
  /\ constructedUnder = "development"
  /\ env = "production"
  /\ HeadersHas(returned.headers, "Strict-Transport-Security")
  /\ SameValue(HeadersGet(returned.headers, "Strict-Transport-Security"), Text("handler"))

\* The places of the source 'nonce-<v>' in a clause.
NonceSources(clause, v) ==
  {j \in DOMAIN clause.sources :
     clause.sources[j].kind = "nonce" /\ clause.sources[j].v = v}

\* C3: with csp.useNonce true, every returned response has an X-Nonce header,
\* and each script-src and style-src clause its CSP header holds has exactly
\* one source 'nonce-<v>', <v> being the value of X-Nonce, the same for both.
C3_NonceInScriptAndStyle ==
  (Returned /\ IsDef(config, "csp") /\ CspUseNonce(config.def["csp"])) =>
    LET h == returned.headers
        name == CspHeaderName(config.def["csp"])
    IN /\ HeadersHas(h, name)
       /\ HeadersGet(h, name).kind = "csp"
       /\ HeadersHas(h, "X-Nonce")
       /\ HeadersGet(h, "X-Nonce").kind = "nonce"
       /\ \A i \in DOMAIN HeadersGet(h, name).v :
            LET clause == HeadersGet(h, name).v[i] IN
            clause.name \in {"script-src", "style-src"} =>
              Cardinality(NonceSources(clause, HeadersGet(h, "X-Nonce").v)) = 1

\* A response with nonce mode on whose CSP header holds both a script-src and
\* a style-src clause.
C3_Witness ==
  /\ Returned
  /\ IsDef(config, "csp") /\ CspUseNonce(config.def["csp"])
  /\ HeadersHas(returned.headers, CspHeaderName(config.def["csp"]))
  /\ LET v == HeadersGet(returned.headers, CspHeaderName(config.def["csp"])).v
     IN /\ \E i \in DOMAIN v : v[i].name = "script-src"
        /\ \E i \in DOMAIN v : v[i].name = "style-src"

\* C4, as claimed: the nonces of two responses of a middleware instance differ.
C4_NonceNeverReused ==
  (Returned /\ Len(nonce) > 0 /\ Len(earlier) > 0 /\ Len(earlier[1].nonce) > 0) =>
    nonce[1] # earlier[1].nonce[1]

NegativeHstsMaxAge(c) ==
  /\ IsDef(c, "hsts")
  /\ IsDef(c.def["hsts"], "maxAge")
  /\ c.def["hsts"].def["maxAge"] < 0

InvalidReportTo(c) ==
  /\ IsDef(c, "reportTo")
  /\ \E i \in DOMAIN c.def["reportTo"] :
       \/ c.def["reportTo"][i].maxAge < 0
       \/ Len(c.def["reportTo"][i].endpoints) = 0

\* C5: tirneHelmet throws, and returns no middleware, whenever hsts.maxAge is
\* present and negative, or a reportTo entry has a negative maxAge or no
\* endpoint; the throw is at construction, so no request is ever handled.
C5_InvalidConfigThrows ==
  /\ (phase # "new" /\ (NegativeHstsMaxAge(config) \/ InvalidReportTo(config))) =>
       (phase = "failed" /\ error # "")
  /\ phase = "failed" =>
       (outcome = "none" /\ Len(earlier) = 0 /\ finalConfig = EmptyObj /\ staticHeaders = <<>>)

\* tirneHelmet has thrown on a reportTo whose first entry is valid and whose
\* second entry has no endpoint.
C5_Witness ==
  /\ phase = "failed"
  /\ IsDef(config, "reportTo")
  /\ Len(config.def["reportTo"]) = 2
  /\ config.def["reportTo"][1].maxAge >= 0
  /\ Len(config.def["reportTo"][1].endpoints) > 0
  /\ Len(config.def["reportTo"][2].endpoints) = 0

\* C6, as claimed: after resolution every field of the policy, and every
\* field of its hsts, has a value.
C6_EveryFieldConcrete ==
  phase = "ready" =>
    /\ \A k \in SecurityConfigKeys : IsDef(finalConfig, k)
    /\ IsDef(finalConfig, "hsts") =>
         \A k \in HSTSConfigKeys : IsDef(finalConfig.def["hsts"], k)

\* C7, as claimed: a header the downstream handler set under the name of a
\* security header never survives with the handler's value.
C7_HandlerHeaderNeverSurvives ==
  Returned =>
    \A n \in SecurityHeaderNames :
      HeadersHas(handled.headers, n) =>
        ~(/\ HeadersHas(returned.headers, n)
          /\ SameValue(HeadersGet(returned.headers, n), HeadersGet(handled.headers, n)))

\* C7, amended: the writes are applied in the order original headers, static
\* headers, CSP header, X-Nonce, Permissions-Policy, HSTS, the last writer
\* winning per name, so every header the middleware writes for the request
\* carries in the returned response the value of its last write, whatever
\* the downstream handler set under that name.
C7_LastWriteWins ==
  Returned =>
    LET w == Writes IN
    \A i \in DOMAIN w :
      LET last == Max({j \in DOMAIN w : ByteLowercase(w[j].name) = ByteLowercase(w[i].name)})
      IN /\ HeadersHas(returned.headers, w[i].name)
         /\ SameValue(HeadersGet(returned.headers, w[i].name), Normalize(w[last].value))

\* A response whose downstream X-Frame-Options was replaced by the policy's.
C7_Witness ==
  /\ Returned
  /\ HeadersHas(handled.headers, "X-Frame-Options")
  /\ SameValue(HeadersGet(handled.headers, "X-Frame-Options"), Text("handler"))
  /\ SameValue(HeadersGet(returned.headers, "X-Frame-Options"), Text("DENY"))

C9_OnlyHeadersChange ==
  Returned =>
    /\ returned.status = handled.status
    /\ returned.statusText = handled.statusText
    /\ returned.body = handled.body
    /\ LET written == WrittenNames IN
       \A n \in DOMAIN handled.headers :
         n \notin written =>
           (n \in DOMAIN returned.headers /\ SameValue(returned.headers[n], handled.headers[n]))
    /\ response = handled

\* A 200 response whose Content-Type came through next to the security headers.
C9_Witness ==
  /\ Returned
  /\ handled.status = 200 /\ handled.body = "hello"
  /\ "content-type" \in DOMAIN handled.headers
  /\ SameValue(returned.headers["content-type"], Text("application/json"))
  /\ "permissions-policy" \in DOMAIN returned.headers
  /\ "permissions-policy" \notin DOMAIN response.headers

\* The headers that depend on the nonce.
NonceDependent ==
  IF GeneratesNonce
  THEN {ByteLowercase(CspHeaderName(finalConfig.def["csp"])), "x-nonce"}
  ELSE {}

\* C10: two requests of one middleware instance whose downstream responses
\* carry the same headers come back with the same headers, the
\* nonce-dependent ones apart, whatever happened in between (requests, other
\* instances filling the kebab memo, NODE_ENV changing).
C10_SameHeadersForSameInput ==
  (Returned /\ Len(earlier) > 0 /\ earlier[1].handled.headers = handled.headers) =>
    /\ DOMAIN returned.headers = DOMAIN earlier[1].returned.headers
    /\ \A n \in DOMAIN returned.headers \ NonceDependent :
         SameValue(returned.headers[n], earlier[1].returned.headers[n])

\* Two such requests, the later one after NODE_ENV has left the value the
\* middleware was constructed under and with the memo filled.
C10_Witness ==
  /\ Returned
  /\ Len(earlier) > 0
  /\ earlier[1].handled.headers = handled.headers
  /\ DOMAIN handled.headers # {}
  /\ env # constructedUnder
  /\ constructedUnder = "production"
  /\ DOMAIN kebabCache # {}

\* C12, as claimed: for every config tirneHelmet accepts, a request whose
\* downstream handler resolves with a response gets a response from the
\* middleware; a request yields none only when the handler itself failed.
C12_InjectionNeverFails ==
  (phase = "ready" /\ outcome # "none") => outcome \in {"returned", "propagated"}

\* C11, as claimed: once tirneHelmet has returned, whatever the caller does to
\* the config object it passed, and however many requests are handled, the
\* policy, the static headers and the CSP and Permissions-Policy values of
\* every later response are those of the config as it was at the call.
C11_PolicyImmutable ==
  phase = "ready" =>
    /\ staticHeaders = StaticHeaders(FinalConfig(config))
    /\ Returned =>
         /\ SameValue(HeadersGet(returned.headers, CspHeaderName(FinalConfig(config).def["csp"])),
                      buildCSPString(FinalConfig(config).def["csp"], nonce, <<>>).value)
         /\ SameValue(HeadersGet(returned.headers, "Permissions-Policy"),
                      buildPermissionsPolicyString(
                        FinalConfig(config).def["permissionsPolicy"]).value)

====
